---- MODULE Spec2Model ----
(***************************************************************************)
(* Model of the XGBoost prediction decomposition of eli5 (eli5/xgboost.py):*)
(* parse_tree_dump / _parse_dump_line, indexed_leafs,                      *)
(* target_feature_weights and prediction_feature_weights.                  *)
(*                                                                         *)
(* Floating values are modelled as exact rationals, so "equal within       *)
(* floating tolerance" becomes exact equality.  A tree is an arena: a      *)
(* sequence of node records addressed by position, a Python reference to a *)
(* node being its position.  Python exceptions are modelled by an err      *)
(* field naming the exception class; assert statements are enabled.        *)
(***************************************************************************)
EXTENDS Integers, Sequences, FiniteSets, TLC

\* ------------------------------------------------------------------ bounds
MaxLines == 4        \* lines of one tree dump
MaxDepth == 2        \* leading tabs on one line
MaxTrees == 4        \* dumps / leaf ids handed to prediction_feature_weights
MaxEstimators == 3   \* clf.n_estimators

\* ------------------------------------------------------- exact rationals
Abs(x) == IF x < 0 THEN -x ELSE x

RECURSIVE GCD(_, _)
GCD(a, b) == IF b = 0 THEN a ELSE GCD(b, a % b)

Rat(n, d) == LET g == GCD(Abs(n), d) IN [n |-> n \div g, d |-> d \div g]

Zero == [n |-> 0, d |-> 1]

RAdd(a, b) == Rat(a.n * b.d + b.n * a.d, a.d * b.d)

RSub(a, b) == Rat(a.n * b.d - b.n * a.d, a.d * b.d)

RDivInt(a, k) == Rat(a.n, a.d * k)

RECURSIVE RSum(_)
RSum(s) == IF s = <<>> THEN Zero ELSE RAdd(s[1], RSum(Tail(s)))

\* np.mean over a non-empty list
Mean(s) == RDivInt(RSum(s), Len(s))

\* --------------------------------------------------------------- inputs
None == 0

NoSplit == <<>>

F0 == <<"f", "0">>
F1 == <<"f", "1">>
F3 == <<"f", "3">>
Age == <<"a", "g", "e">>

\* split-feature tokens (all match \w+)
Tokens == {F0, F1, F3, Age}

LeafValues == {Rat(-1, 5), Rat(2, 5)}

BranchLine(t, id, f) ==
    [shape |-> "branch", tabs |-> t, nodeid |-> id, feature |-> f, value |-> Zero]

LeafLine(t, id, v) ==
    [shape |-> "leaf", tabs |-> t, nodeid |-> id, feature |-> NoSplit, value |-> v]

\* a non-empty line matching neither regular expression
BadLine == [shape |-> "bad", tabs |-> 0, nodeid |-> 0, feature |-> NoSplit, value |-> Zero]

EmptyLine == [shape |-> "empty", tabs |-> 0, nodeid |-> 0, feature |-> NoSplit, value |-> Zero]

\* the lines that may come next in a dump; node ids are unique within a tree
LineSet(id) ==
    {BranchLine(t, id, f) : t \in 0..MaxDepth, f \in Tokens}
      \cup {LeafLine(t, id, v) : t \in 0..MaxDepth, v \in LeafValues}
      \cup {BadLine, EmptyLine}

\* feature_names: the names of the real features in index order; the bias
\* name follows them, so bias_idx = number of features
FeatureNameChoices == {<<F0>>, <<F0, F1>>}

FeatureNamesLen(fn) == Len(fn) + 1

BiasIdx(fn) == Len(fn)

\* ------------------------------------------------------ _parse_dump_line
\* A node is a Python dict; a key is present when: 'split' - split # NoSplit,
\* 'leaf' - hasLeaf, 'children' - children # <<>>, 'parent' - parent # None.
\* The keys depth, split_condition, yes, no, missing are never read again.
NewBranchNode(line) ==
    [nodeid |-> line.nodeid, split |-> line.feature, hasLeaf |-> FALSE,
     leaf |-> Zero, children |-> <<>>, parent |-> None]

NewLeafNode(line) ==
    [nodeid |-> line.nodeid, split |-> NoSplit, hasLeaf |-> TRUE,
     leaf |-> line.value, children |-> <<>>, parent |-> None]

ParseDumpLine(line) ==
    IF line.shape = "branch"
    THEN [err |-> "none", depth |-> line.tabs, node |-> NewBranchNode(line)]
    ELSE IF line.shape = "leaf"
    THEN [err |-> "none", depth |-> line.tabs, node |-> NewLeafNode(line)]
    ELSE [err |-> "ValueError", depth |-> 0, node |-> NewLeafNode(line)]

\* -------------------------------------------------------- parse_tree_dump
EmptyParse == [nodes |-> <<>>, stack |-> <<>>, result |-> None, err |-> "none"]

\* variant: the stack is never truncated, a shallower line attaches to the last node
TruncateStackNever(stack, depth) == stack

\* stack = stack[:depth] when depth < len(stack)
TruncateStack(stack, depth) ==
    IF depth < Len(stack) THEN SubSeq(stack, 1, depth) ELSE stack

\* one iteration of "for line in text_dump.split('\n')"
ParseLoopBody(st, line) ==
    IF line.shape = "empty" THEN st
    ELSE LET p == ParseDumpLine(line)
             idx == Len(st.nodes) + 1
             nodes1 == Append(st.nodes, p.node)
         IN  IF p.err # "none" THEN [st EXCEPT !.err = p.err]
             ELSE IF p.depth = 0
             THEN IF st.stack # <<>>
                  THEN [st EXCEPT !.err = "AssertionError"]
                  ELSE [nodes |-> nodes1, stack |-> <<idx>>,
                        result |-> idx, err |-> "none"]
             ELSE IF p.depth > Len(st.stack)
             THEN [st EXCEPT !.err = "ValueError"]
             ELSE LET stack1 == TruncateStack(st.stack, p.depth)
                      top == stack1[Len(stack1)]
                  IN  [nodes |-> [nodes1 EXCEPT ![top].children = Append(@, idx)],
                       stack |-> Append(stack1, idx),
                       result |-> st.result, err |-> "none"]

RECURSIVE ParseFrom(_, _, _)
ParseFrom(st, lines, i) ==
    IF i > Len(lines) \/ st.err # "none" THEN st
    ELSE ParseFrom(ParseLoopBody(st, lines[i]), lines, i + 1)

\* the whole function: .err = "none" means .result was returned
ParseTreeDump(lines) == ParseFrom(EmptyParse, lines, 1)

\* ---------------------------------------------------------- indexed_leafs
EmptyIndex == [k \in {} |-> None]

IndexPut(ix, k, v) == [x \in (DOMAIN ix) \cup {k} |-> IF x = k THEN v ELSE ix[x]]

\* dict.update
IndexUpdate(ix, other) ==
    [x \in (DOMAIN ix) \cup (DOMAIN other) |-> IF x \in DOMAIN other THEN other[x] ELSE ix[x]]

ChildLeafs(nodes, parent) ==
    [i \in 1..Len(nodes[parent].children) |-> nodes[nodes[parent].children[i]].leaf]

RECURSIVE IndexedLeafs(_, _)
RECURSIVE IndexChildren(_, _, _, _)
\* the "for child in parent['children']" loop from its i-th child on
IndexChildren(nodes, parent, i, indexed) ==
    IF i > Len(nodes[parent].children)
    THEN [nodes |-> nodes, indexed |-> indexed, err |-> "none"]
    ELSE LET child == nodes[parent].children[i]
             nodes1 == [nodes EXCEPT ![child].parent = parent]
         IN  IF nodes1[child].hasLeaf
             THEN IndexChildren(nodes1, parent, i + 1,
                                IndexPut(indexed, nodes1[child].nodeid, child))
             ELSE LET r == IndexedLeafs(nodes1, child)
                  IN  IF r.err # "none" THEN r
                      ELSE IndexChildren(r.nodes, parent, i + 1,
                                         IndexUpdate(indexed, r.indexed))

IndexedLeafs(nodes, parent) ==
    IF parent = None
    THEN [nodes |-> nodes, indexed |-> EmptyIndex, err |-> "TypeError"]
    ELSE IF nodes[parent].children = <<>>
    THEN [nodes |-> nodes, indexed |-> EmptyIndex, err |-> "KeyError"]
    ELSE LET r == IndexChildren(nodes, parent, 1, EmptyIndex)
         IN  IF r.err # "none" THEN r
             ELSE [nodes |-> [r.nodes EXCEPT ![parent].hasLeaf = TRUE,
                                             ![parent].leaf = Mean(ChildLeafs(r.nodes, parent))],
                   indexed |-> r.indexed, err |-> "none"]

\* ------------------------------------------------- target_feature_weights
Digits == <<"0", "1", "2", "3", "4", "5", "6", "7", "8", "9">>

IsDigit(c) == \E i \in 1..10 : Digits[i] = c

DigitVal(c) == (CHOOSE i \in 1..10 : Digits[i] = c) - 1

RECURSIVE ToInt(_)
\* int() of a string of digits
ToInt(ds) ==
    IF ds = <<>> THEN 0
    ELSE 10 * ToInt(SubSeq(ds, 1, Len(ds) - 1)) + DigitVal(ds[Len(ds)])

\* re.search('^f(\d+)$', split) finds a match
FeatureMatches(split) ==
    /\ Len(split) >= 2
    /\ split[1] = "f"
    /\ \A i \in 2..Len(split) : IsDigit(split[i])

\* feature_idx = int(f_num_match.groups()[0]) - 1
FeatureIdx(split) == ToInt(Tail(split)) - 1

\* numpy indexing of a vector of length n: the 1-based slot, 0 for IndexError
ArraySlot(idx, n) ==
    IF idx >= 0 /\ idx < n THEN idx + 1
    ELSE IF idx < 0 /\ idx >= -n THEN idx + n + 1
    ELSE 0

Zeros(n) == [i \in 1..n |-> Zero]

RECURSIVE PathToRoot(_, _)
\* path = [leaf]; while 'parent' in path[-1]: ...; path.reverse()
PathToRoot(nodes, node) ==
    IF nodes[node].parent = None THEN <<node>>
    ELSE Append(PathToRoot(nodes, nodes[node].parent), node)

\* variant: the parent's value is not subtracted
EdgeDeltaChildOnly(nodes, parent, node) == nodes[node].leaf

\* node['leaf'] - parent['leaf']
EdgeDelta(nodes, parent, node) == RSub(nodes[node].leaf, nodes[parent].leaf)

RECURSIVE AddDeltas(_, _, _, _)
\* "for parent, node in zip(path, path[1:])" from the i-th pair on
AddDeltas(nodes, path, i, acc) ==
    IF i >= Len(path) \/ acc.err # "none" THEN acc
    ELSE LET parent == path[i]
             node == path[i + 1]
             split == nodes[parent].split
             slot == ArraySlot(FeatureIdx(split), Len(acc.fw))
         IN  IF split = NoSplit
             THEN [acc EXCEPT !.err = "KeyError"]
             ELSE IF ~FeatureMatches(split)
             THEN [acc EXCEPT !.err = "AttributeError"]
             ELSE IF slot = 0
             THEN [acc EXCEPT !.err = "IndexError"]
             ELSE AddDeltas(nodes, path, i + 1,
                            [acc EXCEPT !.fw[slot] = RAdd(@, EdgeDelta(nodes, parent, node))])

\* one iteration of "for text_dump, leaf_id in zip(tree_dumps, leaf_ids)"
TreeLoopBody(acc, text_dump, leaf_id, fn) ==
    LET p == ParseTreeDump(text_dump)
        ix == IndexedLeafs(p.nodes, p.result)
    IN  IF p.err # "none" THEN [acc EXCEPT !.err = p.err]
        ELSE IF ix.err # "none" THEN [acc EXCEPT !.err = ix.err]
        ELSE IF leaf_id \notin DOMAIN ix.indexed THEN [acc EXCEPT !.err = "KeyError"]
        ELSE LET leaf == ix.indexed[leaf_id]
                 path == PathToRoot(ix.nodes, leaf)
                 acc1 == [acc EXCEPT !.score = RAdd(@, ix.nodes[leaf].leaf)]
                 acc2 == AddDeltas(ix.nodes, path, 1, acc1)
             IN  IF acc2.err # "none" THEN acc2
                 ELSE [acc2 EXCEPT !.fw[BiasIdx(fn) + 1] = RAdd(@, ix.nodes[path[1]].leaf)]

Min(a, b) == IF a < b THEN a ELSE b

RECURSIVE TreeLoop(_, _, _, _, _)
TreeLoop(acc, leaf_ids, tree_dumps, fn, i) ==
    IF i > Min(Len(leaf_ids), Len(tree_dumps)) \/ acc.err # "none" THEN acc
    ELSE TreeLoop(TreeLoopBody(acc, tree_dumps[i], leaf_ids[i], fn),
                  leaf_ids, tree_dumps, fn, i + 1)

\* .err = "none" means (score, feature_weights) was returned
TargetFeatureWeights(leaf_ids, tree_dumps, fn) ==
    TreeLoop([score |-> Zero, fw |-> Zeros(FeatureNamesLen(fn)), err |-> "none"],
             leaf_ids, tree_dumps, fn, 1)

\* ---------------------------------------------- prediction_feature_weights
\* Python slice s[a:b] of a sequence (0-based, clamped)
Slice(s, a, b) == SubSeq(s, a + 1, Min(b, Len(s)))

\* variant: the chunk runs one tree into the next class
EndIdxOverlap(start_idx, n) == start_idx + n + 1

\* end_idx = start_idx + clf.n_estimators
EndIdx(start_idx, n) == start_idx + n

\* dumps as booster.get_dump() gives them (node ids in breadth-first order)
DumpA == <<BranchLine(0, 0, F1), LeafLine(1, 1, Rat(-1, 5)), LeafLine(1, 2, Rat(2, 5))>>

DumpB ==
    <<BranchLine(0, 0, F1), LeafLine(1, 1, Rat(1, 2)), BranchLine(1, 2, F0),
      LeafLine(2, 3, Rat(-1, 1)), LeafLine(2, 4, Rat(3, 1))>>

DumpBad == <<BranchLine(0, 0, F1), LeafLine(2, 1, Rat(1, 2))>>

DumpLibrary == {DumpA, DumpB, DumpBad}

LeafIdChoices == {1, 2}

SeqsUpTo(S, n) == UNION {[1..k -> S] : k \in 0..n}

\* ------------------------------------------------------------------ state
VARIABLES
    pc,              \* position of the single-tree pipeline
    lines,           \* the lines of the dump read so far
    pst,             \* parse_tree_dump: nodes, stack, result
    ix,              \* what indexed_leafs produced: nodes, indexed
    leafId,          \* the assigned leaf id
    fnames,          \* feature_names
    out,             \* what target_feature_weights produced: score, fw
    err,             \* the exception that ended the pipeline, "none" if none
    epc,             \* position of prediction_feature_weights
    tree_dumps,      \* booster.get_dump()
    leaf_ids,        \* booster.predict(..., pred_leaf=True)
    n_estimators,    \* clf.n_estimators
    start_idx,       \* loop variable of prediction_feature_weights
    scores_weights,  \* its result list
    calls            \* number of target_feature_weights calls it has made

vars == <<pc, lines, pst, ix, leafId, fnames, out, err, epc, tree_dumps,
          leaf_ids, n_estimators, start_idx, scores_weights, calls>>

treeVars == <<pc, lines, pst, ix, leafId, out>>

ensVars == <<epc, tree_dumps, leaf_ids, n_estimators, start_idx, scores_weights, calls>>

NoIndex == [nodes |-> <<>>, indexed |-> EmptyIndex, err |-> "none"]

NoOut == [score |-> Zero, fw |-> <<>>, err |-> "none"]

\* ------------------------------------------- one tree: parse, index, decompose
Init ==
    /\ pc = "parse"
    /\ lines = <<>>
    /\ pst = EmptyParse
    /\ ix = NoIndex
    /\ leafId = 0
    /\ fnames = <<F0>>
    /\ out = NoOut
    /\ err = "none"
    /\ epc = "idle"
    /\ tree_dumps = <<>>
    /\ leaf_ids = <<>>
    /\ n_estimators = 1
    /\ start_idx = 0
    /\ scores_weights = <<>>
    /\ calls = 0

\* parse_tree_dump reads the next line of the dump
ParseLine ==
    /\ pc = "parse"
    /\ Len(lines) < MaxLines
    /\ \E line \in LineSet(Len(lines)) :
          /\ lines' = Append(lines, line)
          /\ pst' = ParseLoopBody(pst, line)
          /\ err' = pst'.err
          /\ pc' = IF pst'.err = "none" THEN "parse" ELSE "parse_failed"
    /\ UNCHANGED <<ix, leafId, fnames, out>>
    /\ UNCHANGED ensVars

\* the dump has no more lines: parse_tree_dump returns result
ParseReturn ==
    /\ pc = "parse"
    /\ pc' = "parsed"
    /\ UNCHANGED <<lines, pst, ix, leafId, fnames, out, err>>
    /\ UNCHANGED ensVars

\* indexed_leafs(parse_tree_dump(text_dump))
IndexLeafs ==
    /\ pc = "parsed"
    /\ ix' = IndexedLeafs(pst.nodes, pst.result)
    /\ err' = ix'.err
    /\ pc' = IF ix'.err = "none" THEN "indexed" ELSE "index_failed"
    /\ UNCHANGED <<lines, pst, leafId, fnames, out>>
    /\ UNCHANGED ensVars

\* target_feature_weights([leaf_id], [text_dump], feature_names)
Decompose ==
    /\ pc = "indexed"
    /\ \E id \in DOMAIN ix.indexed, fn \in FeatureNameChoices :
          /\ leafId' = id
          /\ fnames' = fn
          /\ out' = TargetFeatureWeights(<<id>>, <<lines>>, fn)
    /\ err' = out'.err
    /\ pc' = IF out'.err = "none" THEN "decomposed" ELSE "decompose_failed"
    /\ UNCHANGED <<lines, pst, ix>>
    /\ UNCHANGED ensVars

Next == ParseLine \/ ParseReturn \/ IndexLeafs \/ Decompose

Spec == Init /\ [][Next]_vars

\* --------------------------------------- the ensemble: one call per prediction
InitEnsemble ==
    /\ pc = "idle"
    /\ lines = <<>>
    /\ pst = EmptyParse
    /\ ix = NoIndex
    /\ leafId = 0
    /\ out = NoOut
    /\ err = "none"
    /\ fnames \in FeatureNameChoices
    /\ epc = "start"
    /\ tree_dumps \in SeqsUpTo(DumpLibrary, MaxTrees)
    /\ leaf_ids \in SeqsUpTo(LeafIdChoices, MaxTrees)
    /\ n_estimators \in 1..MaxEstimators
    /\ start_idx = 0
    /\ scores_weights = <<>>
    /\ calls = 0

\* assert len(tree_dumps) == len(leaf_ids)
CheckShape ==
    /\ epc = "start"
    /\ IF Len(tree_dumps) = Len(leaf_ids)
       THEN epc' = "loop" /\ err' = "none"
       ELSE epc' = "failed" /\ err' = "AssertionError"
    /\ UNCHANGED <<tree_dumps, leaf_ids, n_estimators, start_idx, scores_weights, calls>>
    /\ UNCHANGED <<fnames>>
    /\ UNCHANGED treeVars

\* one iteration of "for start_idx in range(0, len(leaf_ids), clf.n_estimators)"
DecomposeChunk ==
    /\ epc = "loop"
    /\ start_idx < Len(leaf_ids)
    /\ LET end_idx == EndIdx(start_idx, n_estimators)
           r == TargetFeatureWeights(Slice(leaf_ids, start_idx, end_idx),
                                     Slice(tree_dumps, start_idx, end_idx), fnames)
       IN  /\ calls' = calls + 1
           /\ err' = r.err
           /\ IF r.err = "none"
              THEN /\ scores_weights' = Append(scores_weights, [score |-> r.score, fw |-> r.fw])
                   /\ start_idx' = start_idx + n_estimators
                   /\ epc' = "loop"
              ELSE /\ epc' = "failed"
                   /\ UNCHANGED <<scores_weights, start_idx>>
    /\ UNCHANGED <<tree_dumps, leaf_ids, n_estimators, fnames>>
    /\ UNCHANGED treeVars

\* the range is exhausted: return scores_weights
ReturnScoresWeights ==
    /\ epc = "loop"
    /\ start_idx >= Len(leaf_ids)
    /\ epc' = "done"
    /\ UNCHANGED <<tree_dumps, leaf_ids, n_estimators, start_idx, scores_weights, calls>>
    /\ UNCHANGED <<fnames, err>>
    /\ UNCHANGED treeVars

NextEnsemble == CheckShape \/ DecomposeChunk \/ ReturnScoresWeights

SpecEnsemble == InitEnsemble /\ [][NextEnsemble]_vars

\* ================================================================ properties
\* the lines that produced a node, in order: node j comes from NodeLines[j]
NodeLines == SelectSeq(lines, LAMBDA l : l.shape # "empty")

\* the places (p, i) where node j is the i-th child of node p
Occurrences(nodes, j) ==
    {<<p, i>> \in (1..Len(nodes)) \X (1..Len(nodes)) :
        i <= Len(nodes[p].children) /\ nodes[p].children[i] = j}

\* p is the nearest line before j that is one level shallower than j
NearestShallower(nl, p, j) ==
    /\ p < j
    /\ nl[p].tabs = nl[j].tabs - 1
    /\ \A q \in (p + 1)..(j - 1) : nl[q].tabs # nl[j].tabs - 1

RECURSIVE Reach(_, _)
\* the nodes reachable from node j through children
Reach(nodes, j) ==
    {j} \cup UNION {Reach(nodes, nodes[j].children[i]) : i \in 1..Len(nodes[j].children)}

\* the root-to-leaf path of the assigned leaf, in the indexed tree
AssignedPath == PathToRoot(ix.nodes, ix.indexed[leafId])

\* the raw value on the leaf line of the assigned leaf (node id = line number)
AssignedLeafValue == lines[leafId + 1].value

Decomposed == pc \in {"decomposed", "decompose_failed"}

\* ---- C1: for every parsed and indexed tree and every leaf id of its index,
\* the vector target_feature_weights returns for that one (dump, leaf id) pair
\* has one entry per feature plus the bias entry, its entries sum to the
\* returned score, and the score is the leaf's raw leaf value.
C1_SumIsLeafValue ==
    pc = "decomposed" =>
        /\ Len(out.fw) = Len(fnames) + 1
        /\ RSum(out.fw) = out.score
        /\ out.score = AssignedLeafValue

\* a leaf two levels below the root was decomposed into two different slots
C1_Witness ==
    /\ pc = "decomposed"
    /\ Len(AssignedPath) = 3
    /\ Cardinality({i \in 1..Len(out.fw) : out.fw[i] # Zero}) >= 2

\* ---- C2: each edge delta of the root-to-leaf path lands in the slot the
\* feature-name mapping gives the parent's split feature, the root's aggregate
\* lands in the bias slot; the two-leaf tree on f0 with leaves -0.2 and 0.4,
\* mapping {f0: 0, bias: 1}, leaf 2, gives score 0.4 and vector [0.3, 0.1].
IsMapped(fn, tok) == \E i \in 1..Len(fn) : fn[i] = tok

MappedSlot(fn, tok) == CHOOSE i \in 1..Len(fn) : fn[i] = tok

RECURSIVE MappedVector(_, _, _, _)
MappedVector(nodes, path, fn, i) ==
    IF i >= Len(path)
    THEN [Zeros(Len(fn) + 1) EXCEPT ![Len(fn) + 1] = nodes[path[1]].leaf]
    ELSE LET v == MappedVector(nodes, path, fn, i + 1)
         IN  [v EXCEPT ![MappedSlot(fn, nodes[path[i]].split)] =
                            RAdd(@, RSub(nodes[path[i + 1]].leaf, nodes[path[i]].leaf))]

PathIsMapped ==
    \A i \in 1..(Len(AssignedPath) - 1) : IsMapped(fnames, ix.nodes[AssignedPath[i]].split)

ExampleDump == <<BranchLine(0, 0, F0), LeafLine(1, 1, Rat(-1, 5)), LeafLine(1, 2, Rat(2, 5))>>

C2_DeltaInMappedSlot ==
    /\ (Decomposed /\ PathIsMapped) =>
          /\ pc = "decomposed"
          /\ out.fw = MappedVector(ix.nodes, AssignedPath, fnames, 1)
    /\ (Decomposed /\ lines = ExampleDump /\ leafId = 2 /\ fnames = <<F0>>) =>
          /\ pc = "decomposed"
          /\ out.score = Rat(2, 5)
          /\ out.fw = <<Rat(3, 10), Rat(1, 10)>>

\* ---- C3: after indexed_leafs has run on a parsed tree, every branch node's
\* aggregate is the mean of its direct children's aggregates and every leaf's
\* aggregate is its own stored leaf value.
C3_AggregateIsMean ==
    pc = "indexed" =>
        \A j \in 1..Len(ix.nodes) :
            /\ NodeLines[j].shape = "branch" =>
                  /\ ix.nodes[j].hasLeaf
                  /\ ix.nodes[j].children # <<>>
                  /\ ix.nodes[j].leaf = Mean(ChildLeafs(ix.nodes, j))
            /\ NodeLines[j].shape = "leaf" => ix.nodes[j].leaf = NodeLines[j].value

\* ---- C4: for every tree parse_tree_dump returns, a root that is a leaf
\* included, indexed_leafs returns a mapping whose keys are exactly the node
\* ids of the leaves reachable from the root, each mapped to its own node.
C4_IndexIsTheLeaves ==
    (pc \in {"indexed", "index_failed"} /\ pst.result # None) =>
        /\ pc = "indexed"
        /\ DOMAIN ix.indexed =
              {pst.nodes[j].nodeid : j \in {r \in Reach(pst.nodes, pst.result) :
                                                NodeLines[r].shape = "leaf"}}
        /\ \A k \in DOMAIN ix.indexed :
              /\ pst.nodes[ix.indexed[k]].nodeid = k
              /\ NodeLines[ix.indexed[k]].shape = "leaf"

\* ---- C7: every illegal depth transition (a depth beyond the stack length,
\* or a depth-0 line while the stack is non-empty) is rejected with the
\* ValueError used for malformed lines.
C7_DepthErrorIsValueError ==
    (pc = "parse_failed" /\ lines[Len(lines)].shape # "bad") => err = "ValueError"

\* ---- C8: when a branch node on the path of the assigned leaf has a split
\* token the feature-name mapping has no index for, target_feature_weights
\* fails with a lookup error and adds the node's delta to no slot.
LookupErrors == {"KeyError", "IndexError"}

C8_UnmappedTokenFails ==
    (Decomposed /\ \E i \in 1..(Len(AssignedPath) - 1) :
                      /\ ix.nodes[AssignedPath[i]].split # NoSplit
                      /\ ~IsMapped(fnames, ix.nodes[AssignedPath[i]].split)) =>
        /\ pc = "decompose_failed"
        /\ err \in LookupErrors

\* ---- C9: in every accepted dump the root is the node of the depth-0 line,
\* the node of a line of depth d > 0 is a child of the node of the nearest
\* preceding line of depth d-1, every non-empty line's node is in the tree
\* exactly once, and children are in the order of their lines.
C9_TreeFollowsDepths ==
    pc = "parsed" =>
        LET nl == NodeLines
            nodes == pst.nodes
        IN  /\ Len(nodes) = Len(nl)
            /\ \A j \in 1..Len(nl) : nodes[j].nodeid = nl[j].nodeid
            /\ pst.result = (IF nl = <<>> THEN None ELSE 1)
            /\ \A j \in 1..Len(nl) :
                  IF nl[j].tabs = 0
                  THEN j = pst.result /\ Occurrences(nodes, j) = {}
                  ELSE /\ Cardinality(Occurrences(nodes, j)) = 1
                       /\ \A o \in Occurrences(nodes, j) : NearestShallower(nl, o[1], j)
            /\ \A p \in 1..Len(nodes) :
                  \A i, k \in 1..Len(nodes[p].children) :
                      i < k => nodes[p].children[i] < nodes[p].children[k]

\* a line closed a deeper subtree: it is one level shallower than the line before
C9_Witness ==
    /\ pc = "parsed"
    /\ Len(lines) = 4
    /\ \A i \in 1..4 : lines[i].shape # "empty"
    /\ lines[3].tabs = 2
    /\ lines[4].tabs = 1

\* ---- C10: in every tree parse_tree_dump returns, a node made from a leaf
\* line has no children.
C10_LeafHasNoChildren ==
    pc = "parsed" =>
        \A j \in 1..Len(pst.nodes) :
            NodeLines[j].shape = "leaf" => pst.nodes[j].children = <<>>

\* ---- C5: prediction_feature_weights returns one (score, vector) per class;
\* class k's score and vector are the sums of the per-tree scores and vectors
\* of the trees at flat positions k*n .. (k+1)*n-1 and of no other tree.
SingleTree(i) == TargetFeatureWeights(<<leaf_ids[i]>>, <<tree_dumps[i]>>, fnames)

RECURSIVE SumOfScores(_, _)
SumOfScores(a, b) ==
    IF a > b THEN Zero ELSE RAdd(SingleTree(a).score, SumOfScores(a + 1, b))

RECURSIVE SumOfVectors(_, _)
SumOfVectors(a, b) ==
    IF a > b THEN Zeros(Len(fnames) + 1)
    ELSE LET v == SumOfVectors(a + 1, b)
         IN  [i \in 1..(Len(fnames) + 1) |-> RAdd(SingleTree(a).fw[i], v[i])]

C5_ClassIsSumOfItsTrees ==
    (epc = "done" /\ Len(tree_dumps) % n_estimators = 0) =>
        LET n == n_estimators
            num_classes == Len(tree_dumps) \div n
        IN  /\ Len(scores_weights) = num_classes
            /\ \A k \in 0..(num_classes - 1) :
                  /\ \A i \in (k * n + 1)..((k + 1) * n) : SingleTree(i).err = "none"
                  /\ scores_weights[k + 1].score = SumOfScores(k * n + 1, (k + 1) * n)
                  /\ scores_weights[k + 1].fw = SumOfVectors(k * n + 1, (k + 1) * n)

\* two classes of two trees each came back with different scores
C5_Witness ==
    /\ epc = "done"
    /\ n_estimators = 2
    /\ Len(tree_dumps) = 4
    /\ Len(scores_weights) = 2
    /\ scores_weights[1].score # scores_weights[2].score

\* ---- C6: no tree is decomposed unless len(dumps) = len(leaf_ids) and that
\* count is a whole multiple of num_estimators_per_class.
C6_ShapeCheckedFirst ==
    calls > 0 =>
        /\ Len(tree_dumps) = Len(leaf_ids)
        /\ Len(tree_dumps) % n_estimators = 0

====
